---- MODULE Spec2Model ----
(***************************************************************************)
(* Model of the inventory service of main_implementation.py: the three     *)
(* request handlers that mutate stock (update_inventory, create_order,     *)
(* transfer_inventory), each working through its own SQLAlchemy session    *)
(* (autoflush=False) against the shared PostgreSQL tables inventory,       *)
(* orders and order_items, the passes of notify_clients over the set      *)
(* connected_clients that websocket_endpoint fills and empties, and the    *)
(* background task process_analytics.                                      *)
(*                                                                         *)
(* A handler is an `async def` whose database calls are synchronous: it    *)
(* holds its process's event loop from the request to its first real       *)
(* suspension.  Handlers of different server processes share only the      *)
(* database, and there their statements interleave (READ COMMITTED: a      *)
(* query sees what is committed when it runs, a session sees its own       *)
(* pending changes through its identity map).                              *)
(***************************************************************************)
EXTENDS Integers, Sequences, FiniteSets, TLC

\* Bounds of the model.
MaxQty == 2
MaxThreshold == 1
MaxItems == 2
MaxCycles == 2

\* await asyncio.sleep(60) of process_analytics' except branch
RetryDelay == 60
\* settings.ANALYTICS_INTERVAL, the seconds between two cycles
ANALYTICS_INTERVAL == 300
\* settings.ANALYTICS_BATCH_SIZE, the rows one cycle reads at most
ANALYTICS_BATCH_SIZE == 1000
\* settings.CACHE_TTL, the seconds a cached value lives
CACHE_TTL == 300

Products == {1, 2}
Warehouses == {1, 2}
Handlers == {"h1", "h2"}
Procs == {"p1", "p2"}
\* the websockets, in the order a pass over the set meets them
Clients == {1, 2}

\* InventoryUpdate.quantity, item["quantity"], transfer_data["quantity"] are
\* plain ints: no handler validates their sign.
QtyVals == (0 - 1)..MaxQty
ThresholdVals == 0..MaxThreshold

VARIABLES
    inventory,          \* table inventory: row id (index) -> row, committed
    orders,             \* table orders: the committed rows
    order_items,        \* table order_items: the committed rows, in id order
    order_seq,          \* last value drawn from the sequence orders.id
    connected_clients,  \* per process: the set connected_clients
    closed,             \* the websockets whose peer has gone away
    inbox,              \* per websocket: the messages its peer received
    analytics,          \* per process: the task process_analytics
    redis_client,       \* the cache: key inventory_trend:p:w -> its value
    broadcasts,         \* the messages notify_clients was called with, in order
    proc,               \* the server process each handler runs in
    loop,               \* per process: the handler holding the event loop
    pc,                 \* per handler: its position
    req,                \* per handler: its request
    sess,               \* per handler: its Session (db)
    local,              \* per handler: its local variables
    resp,               \* per handler: the response it returned
    pre                 \* per handler: the tables as they were when it was called

vars == <<inventory, orders, order_items, order_seq, connected_clients,
          closed, inbox, analytics, redis_client,
          broadcasts, proc, loop, pc, req, sess, local, resp, pre>>

\* what the sockets and the background task hold
peers == <<connected_clients, closed, inbox, analytics, redis_client>>

----------------------------------------------------------------------------
\* Rows and requests

\* class Inventory: reserved_quantity has default=0, the other columns none.
NewInventory(p, w, q, t) ==
    [product_id |-> p, warehouse_id |-> w, quantity |-> q,
     reserved_quantity |-> 0, low_stock_threshold |-> t]

Item == [product_id : Products, quantity : QtyVals]
ItemLists == UNION {[1..n -> Item] : n \in 0..MaxItems}

\* InventoryUpdate plus the path parameter product_id.
UpdateRequests ==
    [op : {"update_inventory"}, product_id : Products, warehouse_id : Warehouses,
     to_warehouse_id : {0}, quantity : QtyVals,
     low_stock_threshold : ThresholdVals, items : {<<>>}]

\* OrderCreate (customer_id plays no part in any handler).
OrderRequests ==
    [op : {"create_order"}, product_id : {0}, warehouse_id : Warehouses,
     to_warehouse_id : {0}, quantity : {0}, low_stock_threshold : {0},
     items : ItemLists]

\* transfer_data: warehouse_id holds from_warehouse_id.
TransferRequests ==
    [op : {"transfer_inventory"}, product_id : Products, warehouse_id : Warehouses,
     to_warehouse_id : Warehouses, quantity : QtyVals,
     low_stock_threshold : {0}, items : {<<>>}]

Requests == UpdateRequests \cup OrderRequests \cup TransferRequests

NoRequest ==
    [op |-> "none", product_id |-> 0, warehouse_id |-> 0, to_warehouse_id |-> 0,
     quantity |-> 0, low_stock_threshold |-> 0, items |-> <<>>]

----------------------------------------------------------------------------
\* The session: SessionLocal = sessionmaker(autocommit=False, autoflush=False)

\* orig: the rows loaded, as loaded; cur: the same objects as the handler has
\* changed them; new_inv, new_items: objects added and not yet flushed;
\* order: the Order flushed in this transaction (id 0: none).
NoOrder == [id |-> 0, status |-> "none", warehouse_id |-> 0]
EmptySession ==
    [orig |-> <<>>, cur |-> <<>>, new_inv |-> <<>>, new_items |-> <<>>,
     order |-> NoOrder]

\* ids of the committed rows a filter on (product_id, warehouse_id) matches
Matching(tbl, p, w) ==
    {id \in 1..Len(tbl) : tbl[id].product_id = p /\ tbl[id].warehouse_id = w}

\* .first() with no ORDER BY: any matching row, or None (0)
First(tbl, p, w) ==
    IF Matching(tbl, p, w) = {} THEN {0} ELSE Matching(tbl, p, w)

\* (a variant: every query overwrites the object with the committed row)
LoadFresh(s, tbl, id) ==
    IF id = 0 THEN s
    ELSE [s EXCEPT !.orig = (id :> tbl[id]) @@ @, !.cur = (id :> tbl[id]) @@ @]

\* The identity map: a row already in the session is the object the session
\* holds (its attributes are not overwritten by the query).
Load(s, tbl, id) ==
    IF id = 0 \/ id \in DOMAIN s.cur THEN s
    ELSE [s EXCEPT !.orig = (id :> tbl[id]) @@ @, !.cur = (id :> tbl[id]) @@ @]

\* The UPDATE a flush emits for one dirty object: the columns whose value
\* differs from the loaded one, set to the value computed in Python.
FlushRow(dbrow, orig, cur) ==
    [dbrow EXCEPT
        !.quantity = IF cur.quantity # orig.quantity THEN cur.quantity ELSE @,
        !.reserved_quantity =
            IF cur.reserved_quantity # orig.reserved_quantity
            THEN cur.reserved_quantity ELSE @,
        !.low_stock_threshold =
            IF cur.low_stock_threshold # orig.low_stock_threshold
            THEN cur.low_stock_threshold ELSE @]

\* db.commit() on table inventory: the UPDATEs, then the INSERTs
CommitInventory(tbl, s) ==
    [id \in 1..Len(tbl) |->
        IF id \in DOMAIN s.cur THEN FlushRow(tbl[id], s.orig[id], s.cur[id])
        ELSE tbl[id]] \o s.new_inv

----------------------------------------------------------------------------
\* Responses and messages

NoRow == NewInventory(0, 0, 0, 0)
NoDetail == [status_code |-> 0, text |-> "", product_id |-> 0]
NoResponse ==
    [code |-> 0, detail |-> NoDetail, order |-> NoOrder, row |-> NoRow]

\* str(e) of an HTTPException built with keyword arguments.  It is what the
\* installed Starlette makes it: "<status_code>: <detail>" where HTTPException
\* defines __str__, and "" where it does not (the exception's args are empty).
\* The repository pins no version, so both are outcomes of a build.
StrException(e) ==
    {[status_code |-> e.status_code, text |-> e.text,
      product_id |-> e.product_id],
     NoDetail}

NoMessage ==
    [type |-> "none", product_id |-> 0, warehouse_id |-> 0, to_warehouse |-> 0,
     quantity |-> 0, order_id |-> 0, status |-> ""]

\* the handler's locals, and of its call of notify_clients the set iterator
\* (the size the set had when the for began, the place it has reached), the
\* set as it then was and the exception that ended the pass
NoLocal ==
    [inventory |-> 0, source |-> 0, i |-> 1, order_id |-> 0,
     committed |-> FALSE, it_used |-> 0, it_pos |-> 0, it_set |-> {},
     exc |-> ""]

Snapshot == [inventory |-> inventory, orders |-> orders,
             order_items |-> order_items, order_seq |-> order_seq,
             broadcasts |-> broadcasts]
\* process_analytics before start_analytics_task has created it: where it
\* is, the cycles it has begun, the seconds of the sleep it is in
NoTask == [pc |-> "off", cycles |-> 0, sleep |-> 0]

NoSnapshot == [inventory |-> <<>>, orders |-> {}, order_items |-> <<>>,
               order_seq |-> 0, broadcasts |-> <<>>]

----------------------------------------------------------------------------
\* A request arrives: the handler takes the event loop of its process.
FirstPc(r) ==
    CASE r.op = "update_inventory" -> "upd_query"
      [] r.op = "create_order" -> "ord_flush"
      [] r.op = "transfer_inventory" -> "xfer_source"

Begin(h, r) ==
    /\ pc[h] = "idle"
    /\ loop[proc[h]] = "none"
    /\ loop' = [loop EXCEPT ![proc[h]] = h]
    /\ req' = [req EXCEPT ![h] = r]
    /\ pre' = [pre EXCEPT ![h] = Snapshot]
    /\ sess' = [sess EXCEPT ![h] = EmptySession]
    /\ local' = [local EXCEPT ![h] = NoLocal]
    /\ pc' = [pc EXCEPT ![h] = FirstPc(r)]
    /\ UNCHANGED <<inventory, orders, order_items, order_seq, peers,
                   broadcasts, proc, resp>>

\* The handler returns (or raises to the framework): the response goes out,
\* the session is closed (get_db), the event loop is free.
Return(h, r) ==
    /\ resp' = [resp EXCEPT ![h] = r]
    /\ pc' = [pc EXCEPT ![h] = "done"]
    /\ sess' = [sess EXCEPT ![h] = EmptySession]
    /\ loop' = [loop EXCEPT ![proc[h]] = "none"]

\* (a variant: the call made twice)
NotifyClientsTwice(h, m) ==
    broadcasts' = Append(Append(broadcasts, m), m)

\* notify_clients(message) is called: `for client in connected_clients`
\* makes the iterator of the set as it is now.
NotifyClients(h, m) ==
    broadcasts' = Append(broadcasts, m)

\* With no client connected the loop body never runs and the call does not
\* suspend: the handler goes on to its return, r.  Otherwise the pass over the
\* set begins (the handler still holds the event loop: nothing has awaited).
Broadcast(h, r) ==
    IF connected_clients[proc[h]] = {}
    THEN Return(h, r) /\ UNCHANGED local
    ELSE /\ local' = [local EXCEPT
               ![h].it_used = Cardinality(connected_clients[proc[h]]),
               ![h].it_pos = 0,
               ![h].it_set = connected_clients[proc[h]]]
         /\ resp' = [resp EXCEPT ![h] = [r EXCEPT !.code = 0]]
         /\ pc' = [pc EXCEPT ![h] = "notify"]
         /\ UNCHANGED <<sess, loop>>

----------------------------------------------------------------------------
\* update_inventory

\* (a variant: the reserved count reset with the level)
SetLevelResettingReserved(row, q, t) ==
    [row EXCEPT !.quantity = q, !.low_stock_threshold = t,
                !.reserved_quantity = 0]

\* lines 279-280: the existing object gets the new quantity and threshold
SetLevel(row, q, t) ==
    [row EXCEPT !.quantity = q, !.low_stock_threshold = t]

\* the query, and the branch on its result (no suspension between them)
UpdQuery(h) ==
    /\ pc[h] = "upd_query"
    /\ \E id \in First(inventory, req[h].product_id, req[h].warehouse_id) :
        LET s == Load(sess[h], inventory, id) IN
        /\ local' = [local EXCEPT ![h].inventory = id]
        /\ sess' = [sess EXCEPT ![h] =
             IF id = 0
             THEN [s EXCEPT !.new_inv = Append(@, NewInventory(
                        req[h].product_id, req[h].warehouse_id,
                        req[h].quantity, req[h].low_stock_threshold))]
             ELSE [s EXCEPT !.cur[id] = SetLevel(@, req[h].quantity,
                                                 req[h].low_stock_threshold)]]
    /\ pc' = [pc EXCEPT ![h] = "upd_commit"]
    /\ UNCHANGED <<inventory, orders, order_items, order_seq, peers,
                   broadcasts, proc, loop, req, resp, pre>>

\* db.commit(): the new object gets its id
UpdCommit(h) ==
    /\ pc[h] = "upd_commit"
    /\ inventory' = CommitInventory(inventory, sess[h])
    /\ local' = [local EXCEPT ![h].inventory =
                                 IF @ = 0 THEN Len(inventory) + 1 ELSE @,
                             ![h].committed = TRUE]
    /\ sess' = [sess EXCEPT ![h] = EmptySession]
    /\ pc' = [pc EXCEPT ![h] = "upd_refresh"]
    /\ UNCHANGED <<orders, order_items, order_seq, peers,
                   broadcasts, proc, loop, req, resp, pre>>

\* the message of lines 286-291: current_stock is update.quantity
LowStockAlert(r) ==
    [NoMessage EXCEPT !.type = "low_stock_alert", !.product_id = r.product_id,
                      !.warehouse_id = r.warehouse_id, !.quantity = r.quantity]

\* (a variant: < for <=)
IsLowStockStrict(row) == row.quantity < row.low_stock_threshold

\* the test of line 285, on the refreshed object
IsLowStock(row) == row.quantity <= row.low_stock_threshold

\* db.refresh(inventory), the low-stock test, the notification, the return
UpdRefresh(h) ==
    /\ pc[h] = "upd_refresh"
    /\ LET row == inventory[local[h].inventory] IN
        IF IsLowStock(row)
        THEN /\ NotifyClients(h, LowStockAlert(req[h]))
             /\ Broadcast(h, [NoResponse EXCEPT !.code = 200, !.row = row])
        ELSE /\ Return(h, [NoResponse EXCEPT !.code = 200, !.row = row])
             /\ UNCHANGED <<broadcasts, local>>
    /\ UNCHANGED <<inventory, orders, order_items, order_seq, peers,
                   proc, req, pre>>

UpdateInventory(h) == UpdQuery(h) \/ UpdCommit(h) \/ UpdRefresh(h)

----------------------------------------------------------------------------
\* create_order

\* (a variant: the order committed where it is flushed)
OrdFlushCommitted(h) ==
    /\ pc[h] = "ord_flush"
    /\ order_seq' = order_seq + 1
    /\ orders' = orders \cup {[id |-> order_seq + 1, status |-> "PENDING",
                               warehouse_id |-> req[h].warehouse_id]}
    /\ sess' = [sess EXCEPT ![h].order =
          [id |-> order_seq + 1, status |-> "PENDING",
           warehouse_id |-> req[h].warehouse_id]]
    /\ pc' = [pc EXCEPT ![h] =
          IF Len(req[h].items) = 0 THEN "ord_commit" ELSE "ord_item"]
    /\ UNCHANGED <<inventory, order_items, peers,
                   broadcasts, proc, loop, req, local, resp, pre>>

\* db.add(db_order); db.flush(): the INSERT draws the order's id; the row is
\* PENDING and visible to this transaction only.
OrdFlush(h) ==
    /\ pc[h] = "ord_flush"
    /\ order_seq' = order_seq + 1
    /\ sess' = [sess EXCEPT ![h].order =
          [id |-> order_seq + 1, status |-> "PENDING",
           warehouse_id |-> req[h].warehouse_id]]
    /\ pc' = [pc EXCEPT ![h] =
          IF Len(req[h].items) = 0 THEN "ord_commit" ELSE "ord_item"]
    /\ UNCHANGED <<inventory, orders, order_items, peers,
                   broadcasts, proc, loop, req, local, resp, pre>>

\* the HTTPException of lines 323-326
InsufficientStock(p) ==
    [status_code |-> 400, text |-> "Insufficient stock for product",
     product_id |-> p]

\* (a variant: the stock test left out)
CannotReserveUnlessMissing(s, id, quantity) == id = 0

\* the test of line 322 on the object the query returned (0: None)
CannotReserve(s, id, quantity) == id = 0 \/ s.cur[id].quantity < quantity

\* (a variant: the reserved count left as it was)
ReserveQuantityOnly(s, id, item) ==
    [s EXCEPT !.new_items = Append(@, [order_id |-> s.order.id,
                                        product_id |-> item.product_id,
                                        quantity |-> item.quantity]),
              !.cur[id].quantity = @ - item.quantity]

\* lines 328-338: the OrderItem is added, the Inventory object is changed
Reserve(s, id, item) ==
    [s EXCEPT !.new_items = Append(@, [order_id |-> s.order.id,
                                        product_id |-> item.product_id,
                                        quantity |-> item.quantity]),
              !.cur[id].quantity = @ - item.quantity,
              !.cur[id].reserved_quantity = @ + item.quantity]

\* except Exception as e: db.rollback(); raise HTTPException(400, str(e))
Raise400(h, e) ==
    \E d \in StrException(e) :
        Return(h, [NoResponse EXCEPT !.code = 400, !.detail = d])

\* one pass of the loop over order.items: the query, the test, the reservation
OrdItem(h) ==
    /\ pc[h] = "ord_item"
    /\ LET item == req[h].items[local[h].i] IN
       \E id \in First(inventory, item.product_id, req[h].warehouse_id) :
        LET s == Load(sess[h], inventory, id) IN
        IF CannotReserve(s, id, item.quantity)
        THEN /\ Raise400(h, InsufficientStock(item.product_id))
             /\ UNCHANGED local
        ELSE /\ sess' = [sess EXCEPT ![h] = Reserve(s, id, item)]
             /\ local' = [local EXCEPT ![h].i = @ + 1]
             /\ pc' = [pc EXCEPT ![h] =
                   IF local[h].i = Len(req[h].items)
                   THEN "ord_commit" ELSE "ord_item"]
             /\ UNCHANGED <<loop, resp>>
    /\ UNCHANGED <<inventory, orders, order_items, order_seq, peers,
                   broadcasts, proc, req, pre>>

\* (a variant: the status left as it was)
CompletedLeftPending(o) == o

\* line 341: db_order.status = "COMPLETED"
Completed(o) == [o EXCEPT !.status = "COMPLETED"]

\* db_order.status = "COMPLETED"; db.commit()
OrdCommit(h) ==
    /\ pc[h] = "ord_commit"
    /\ orders' = orders \cup {Completed(sess[h].order)}
    /\ order_items' = order_items \o sess[h].new_items
    /\ inventory' = CommitInventory(inventory, sess[h])
    /\ local' = [local EXCEPT ![h].order_id = sess[h].order.id,
                             ![h].committed = TRUE]
    /\ sess' = [sess EXCEPT ![h] = EmptySession]
    /\ pc' = [pc EXCEPT ![h] = "ord_notify"]
    /\ UNCHANGED <<order_seq, peers, broadcasts, proc, loop, req,
                   resp, pre>>

\* (a variant: the order announced as a low-stock alert)
OrderCreatedAsAlert(id) ==
    [NoMessage EXCEPT !.type = "low_stock_alert", !.order_id = id]

\* the message of lines 345-349
OrderCreated(id) ==
    [NoMessage EXCEPT !.type = "order_created", !.order_id = id,
                      !.status = "COMPLETED"]

\* the order as the response reads it back after the commit
ReadOrder(id) ==
    IF \E o \in orders : o.id = id
    THEN CHOOSE o \in orders : o.id = id
    ELSE NoOrder

\* await notify_clients(...); return db_order
OrdNotify(h) ==
    /\ pc[h] = "ord_notify"
    /\ NotifyClients(h, OrderCreated(local[h].order_id))
    /\ Broadcast(h, [NoResponse EXCEPT !.code = 200,
                                       !.order = ReadOrder(local[h].order_id)])
    /\ UNCHANGED <<inventory, orders, order_items, order_seq, peers,
                   proc, req, pre>>

CreateOrder(h) == OrdFlush(h) \/ OrdItem(h) \/ OrdCommit(h) \/ OrdNotify(h)

----------------------------------------------------------------------------
\* transfer_inventory

\* the HTTPException of lines 387-390
InsufficientSource ==
    [status_code |-> 400, text |-> "Insufficient inventory in source warehouse",
     product_id |-> 0]

\* (a variant: the stock test left out)
CannotTransferUnlessMissing(s, id, quantity) == id = 0

\* the test of line 386 on the object the query returned (0: None)
CannotTransfer(s, id, quantity) == id = 0 \/ s.cur[id].quantity < quantity

\* (a variant: = for +=)
CreditAssigned(row, quantity) == [row EXCEPT !.quantity = quantity]

\* line 393 and line 404
Debit(row, quantity) == [row EXCEPT !.quantity = @ - quantity]
Credit(row, quantity) == [row EXCEPT !.quantity = @ + quantity]

\* lines 379-393: the source query, the test, the decrement
XferSource(h) ==
    /\ pc[h] = "xfer_source"
    /\ \E id \in First(inventory, req[h].product_id, req[h].warehouse_id) :
        LET s == Load(sess[h], inventory, id) IN
        IF CannotTransfer(s, id, req[h].quantity)
        THEN /\ Raise400(h, InsufficientSource)
             /\ UNCHANGED local
        ELSE /\ sess' = [sess EXCEPT ![h] =
                   [s EXCEPT !.cur[id] = Debit(@, req[h].quantity)]]
             /\ local' = [local EXCEPT ![h].source = id]
             /\ pc' = [pc EXCEPT ![h] = "xfer_dest"]
             /\ UNCHANGED <<loop, resp>>
    /\ UNCHANGED <<inventory, orders, order_items, order_seq, peers,
                   broadcasts, proc, req, pre>>

\* (a variant: the new entry with no threshold of its own)
NewDestinationWithoutThreshold(source_inventory, r) ==
    NewInventory(r.product_id, r.to_warehouse_id, r.quantity, 0)

\* lines 406-411: the new destination object takes the source object's
\* low_stock_threshold
NewDestination(source_inventory, r) ==
    NewInventory(r.product_id, r.to_warehouse_id, r.quantity,
                 source_inventory.low_stock_threshold)

\* lines 396-412: the destination query, the increment or the new object
XferDest(h) ==
    /\ pc[h] = "xfer_dest"
    /\ \E id \in First(inventory, req[h].product_id, req[h].to_warehouse_id) :
        LET s == Load(sess[h], inventory, id) IN
        sess' = [sess EXCEPT ![h] =
            IF id # 0
            THEN [s EXCEPT !.cur[id] = Credit(@, req[h].quantity)]
            ELSE [s EXCEPT !.new_inv = Append(@,
                      NewDestination(s.cur[local[h].source], req[h]))]]
    /\ pc' = [pc EXCEPT ![h] = "xfer_commit"]
    /\ UNCHANGED <<inventory, orders, order_items, order_seq, peers,
                   broadcasts, proc, loop, req, local, resp, pre>>

\* db.commit()
XferCommit(h) ==
    /\ pc[h] = "xfer_commit"
    /\ inventory' = CommitInventory(inventory, sess[h])
    /\ local' = [local EXCEPT ![h].committed = TRUE]
    /\ sess' = [sess EXCEPT ![h] = EmptySession]
    /\ pc' = [pc EXCEPT ![h] = "xfer_notify"]
    /\ UNCHANGED <<orders, order_items, order_seq, peers,
                   broadcasts, proc, loop, req, resp, pre>>

\* the message of lines 417-423
InventoryTransfer(r) ==
    [NoMessage EXCEPT !.type = "inventory_transfer",
                      !.product_id = r.product_id,
                      !.warehouse_id = r.warehouse_id,
                      !.to_warehouse = r.to_warehouse_id,
                      !.quantity = r.quantity]

\* await notify_clients(...); return {"message": ...}
XferNotify(h) ==
    /\ pc[h] = "xfer_notify"
    /\ NotifyClients(h, InventoryTransfer(req[h]))
    /\ Broadcast(h, [NoResponse EXCEPT !.code = 200])
    /\ UNCHANGED <<inventory, orders, order_items, order_seq, peers,
                   proc, req, pre>>

TransferInventory(h) ==
    XferSource(h) \/ XferDest(h) \/ XferCommit(h) \/ XferNotify(h)

----------------------------------------------------------------------------
\* notify_clients: the pass over connected_clients

\* the message the handler called notify_clients with
Event(h) ==
    CASE req[h].op = "update_inventory" -> LowStockAlert(req[h])
      [] req[h].op = "create_order" -> OrderCreated(local[h].order_id)
      [] req[h].op = "transfer_inventory" -> InventoryTransfer(req[h])

\* An exception leaves notify_clients.  update_inventory calls it outside any
\* try: the framework answers 500.  create_order and transfer_inventory call
\* it inside their try: except Exception rolls back (the commit is already
\* done, nothing is pending) and raises HTTPException(400, str(e)).
NotifyRaises(h, e) ==
    /\ local' = [local EXCEPT ![h].exc = e]
    /\ Return(h, [NoResponse EXCEPT
          !.code = IF req[h].op = "update_inventory" THEN 500 ELSE 400,
          !.detail = [NoDetail EXCEPT !.text = e]])
    /\ UNCHANGED inbox

\* the for loop is exhausted: notify_clients returns and the handler returns
NotifyReturns(h) ==
    /\ Return(h, [resp[h] EXCEPT !.code = 200])
    /\ UNCHANGED <<local, inbox>>

\* await client.send_text(message) to a peer that is there: the message is
\* written to the socket, and the await may give the event loop away
SendText(h, c, m) ==
    /\ inbox' = [inbox EXCEPT ![c] = Append(@, m)]
    /\ local' = [local EXCEPT ![h].it_pos = c]
    /\ loop' = [loop EXCEPT ![proc[h]] = "none"]
    /\ UNCHANGED <<pc, resp, sess>>

\* await client.send_text(message) to a peer that has gone while the
\* endpoint has not yet seen it go: the server's websocket layer either
\* raises from the send or drops the message without a word.
SendTextClosed(h, c) ==
    \/ NotifyRaises(h, "SendError")
    \/ /\ local' = [local EXCEPT ![h].it_pos = c]
       /\ loop' = [loop EXCEPT ![proc[h]] = "none"]
       /\ UNCHANGED <<pc, resp, sess, inbox>>

\* One turn of `for client in connected_clients: await client.send_text(..)`.
\* The set iterator raises RuntimeError when the set's size is not what it
\* was when the for began; otherwise it yields the next client in the
\* table's order, and stops when there is none.
NotifyNext(h) ==
    /\ pc[h] = "notify"
    /\ loop[proc[h]] \in {"none", h}
    /\ LET cc == connected_clients[proc[h]]
           rest == {c \in cc : c > local[h].it_pos} IN
       IF Cardinality(cc) # local[h].it_used
       THEN NotifyRaises(h, "RuntimeError")
       ELSE IF rest = {}
       THEN NotifyReturns(h)
       ELSE LET c == CHOOSE c \in rest : \A d \in rest : c <= d IN
            IF c \in closed
            THEN SendTextClosed(h, c)
            ELSE SendText(h, c, Event(h))
    /\ UNCHANGED <<inventory, orders, order_items, order_seq,
                   connected_clients, closed, analytics, redis_client,
                   broadcasts, proc, req, pre>>

----------------------------------------------------------------------------
\* websocket_endpoint, in process p, for websocket c

\* await websocket.accept(); connected_clients.add(websocket)
WebsocketAccept(p, c) ==
    /\ loop[p] = "none"
    /\ c \notin connected_clients[p]
    /\ c \notin closed
    /\ inbox[c] = <<>>
    /\ connected_clients' = [connected_clients EXCEPT ![p] = @ \cup {c}]
    /\ UNCHANGED <<inventory, orders, order_items, order_seq, closed, inbox,
                   analytics, redis_client, broadcasts, proc, loop, pc, req,
                   sess, local, resp, pre>>

\* the peer closes its side (nothing of the server runs)
PeerCloses(p, c) ==
    /\ c \in connected_clients[p]
    /\ c \notin closed
    /\ closed' = closed \cup {c}
    /\ UNCHANGED <<inventory, orders, order_items, order_seq,
                   connected_clients, inbox, analytics, redis_client,
                   broadcasts, proc, loop, pc, req, sess, local, resp, pre>>

\* receive_text() raises on the disconnect: connected_clients.remove(websocket)
WebsocketExcept(p, c) ==
    /\ loop[p] = "none"
    /\ c \in connected_clients[p]
    /\ c \in closed
    /\ connected_clients' = [connected_clients EXCEPT ![p] = @ \ {c}]
    /\ UNCHANGED <<inventory, orders, order_items, order_seq, closed, inbox,
                   analytics, redis_client, broadcasts, proc, loop, pc, req,
                   sess, local, resp, pre>>

WebsocketEndpoint(p, c) ==
    WebsocketAccept(p, c) \/ PeerCloses(p, c) \/ WebsocketExcept(p, c)

----------------------------------------------------------------------------
\* process_analytics, the background task of process p

\* startup: asyncio.create_task(process_analytics())
StartAnalyticsTask(p) ==
    /\ analytics[p].pc = "off"
    /\ analytics' = [analytics EXCEPT ![p].pc = "run"]

\* key = f"inventory_trend:{trend.product_id}:{trend.warehouse_id}"
TrendKey(trend) == <<trend.product_id, trend.warehouse_id>>

\* (a variant: no except branch, the exception ends the task)
AnalyticsCycleUncaught(p) ==
    /\ analytics[p].pc = "run"
    /\ analytics[p].cycles < MaxCycles
    /\ loop[p] = "none"
    /\ inventory' = inventory
    /\ redis_client' = redis_client
    /\ analytics' = [analytics EXCEPT ![p].pc = "ended", ![p].cycles = @ + 1]

\* (a variant: the cycle clears the table it was to read)
AnalyticsCycleClearing(p) ==
    /\ analytics[p].pc = "run"
    /\ analytics[p].cycles < MaxCycles
    /\ loop[p] = "none"
    /\ inventory' = <<>>
    /\ redis_client' = redis_client
    /\ analytics' = [analytics EXCEPT ![p].pc = "sleep", ![p].cycles = @ + 1,
                                      ![p].sleep = RetryDelay]

\* One turn of `while True`.  db = SessionLocal(); building the query
\* evaluates Inventory.updated_at, and class Inventory (lines 70-78) has no
\* such column: AttributeError, before any statement reaches the database
\* or Redis.  finally: db.close(); except Exception: print, sleep(60).
\* Nothing awaits before the sleep, so the turn is one step of the process.
AnalyticsCycle(p) ==
    /\ analytics[p].pc = "run"
    /\ analytics[p].cycles < MaxCycles
    /\ loop[p] = "none"
    /\ inventory' = inventory
    /\ redis_client' = redis_client
    /\ analytics' = [analytics EXCEPT ![p].pc = "sleep", ![p].cycles = @ + 1,
                                      ![p].sleep = RetryDelay]

\* the sleep is over: the next turn of the loop
AnalyticsWake(p) ==
    /\ analytics[p].pc = "sleep"
    /\ analytics' = [analytics EXCEPT ![p].pc = "run", ![p].sleep = 0]
    /\ UNCHANGED <<inventory, redis_client>>

ProcessAnalytics(p) ==
    /\ \/ StartAnalyticsTask(p) /\ UNCHANGED <<inventory, redis_client>>
       \/ AnalyticsCycle(p)
       \/ AnalyticsWake(p)
    /\ UNCHANGED <<orders, order_items, order_seq, connected_clients, closed,
                   inbox, broadcasts, proc, loop, pc, req, sess, local, resp,
                   pre>>

----------------------------------------------------------------------------
TypeOK ==
    /\ order_seq \in Nat
    /\ \A h \in Handlers : pc[h] \in {"idle", "upd_query", "upd_commit",
          "upd_refresh", "ord_flush", "ord_item", "ord_commit", "ord_notify",
          "xfer_source", "xfer_dest", "xfer_commit", "xfer_notify", "notify",
          "done"}
    /\ \A p \in Procs : connected_clients[p] \subseteq Clients
    /\ closed \subseteq Clients

InitWith(tbl, pr) ==
    /\ inventory = tbl
    /\ orders = {}
    /\ order_items = <<>>
    /\ order_seq = 0
    /\ connected_clients = [p \in Procs |-> {}]
    /\ closed = {}
    /\ inbox = [c \in Clients |-> <<>>]
    /\ analytics = [p \in Procs |-> NoTask]
    /\ redis_client = <<>>
    /\ broadcasts = <<>>
    /\ proc = pr
    /\ loop = [p \in Procs |-> "none"]
    /\ pc = [h \in Handlers |-> "idle"]
    /\ req = [h \in Handlers |-> NoRequest]
    /\ sess = [h \in Handlers |-> EmptySession]
    /\ local = [h \in Handlers |-> NoLocal]
    /\ resp = [h \in Handlers |-> NoResponse]
    /\ pre = [h \in Handlers |-> NoSnapshot]

----------------------------------------------------------------------------
\* The tables a run starts from.  The database outlives the server, so a run
\* starts from rows earlier requests left: each is a row update_inventory
\* and create_order produce (at most one per key, nothing negative).
Keys == <<(<<1, 1>>), (<<1, 2>>), (<<2, 1>>), (<<2, 2>>)>>
KeySet == {Keys[i] : i \in 1..Len(Keys)}

\* a well-stocked entry with a unit reserved, or an entry down to its last unit
SeedRow(k) ==
    IF k[1] = k[2]
    THEN [quantity |-> MaxQty, reserved_quantity |-> 1, low_stock_threshold |-> 1]
    ELSE [quantity |-> 1, reserved_quantity |-> 0, low_stock_threshold |-> 0]

RECURSIVE TableOf(_, _)
TableOf(f, i) ==
    IF i > Len(Keys) THEN <<>>
    ELSE (IF Keys[i] \in DOMAIN f
          THEN <<[product_id |-> Keys[i][1], warehouse_id |-> Keys[i][2],
                  quantity |-> f[Keys[i]].quantity,
                  reserved_quantity |-> f[Keys[i]].reserved_quantity,
                  low_stock_threshold |-> f[Keys[i]].low_stock_threshold]>>
          ELSE <<>>) \o TableOf(f, i + 1)

\* every subset of the keys has its entries
SeedTables ==
    {TableOf([k \in K |-> SeedRow(k)], 1) : K \in SUBSET KeySet}

\* the empty database, and one with a row for every key
FullTable ==
    TableOf([k \in KeySet |->
        [quantity |-> MaxQty, reserved_quantity |-> 0,
         low_stock_threshold |-> IF k[1] = 1 THEN 1 ELSE 0]], 1)

SeparateProcs == [h \in Handlers |-> IF h = "h1" THEN "p1" ELSE "p2"]
OneProc == [h \in Handlers |-> "p1"]

\* Two requests, each in a server process of its own, on a shared database.
Init == \E tbl \in {<<>>, FullTable} : InitWith(tbl, SeparateProcs)

\* in the concurrent runs, orders reserve positive amounts
PositiveItems(r) == \A i \in 1..Len(r.items) : r.items[i].quantity > 0

PositiveRequests == {x \in Requests : PositiveItems(x)}

Next == \E h \in Handlers :
    \/ pc[h] = "idle" /\ \E r \in PositiveRequests : Begin(h, r)
    \/ UpdateInventory(h)
    \/ CreateOrder(h)
    \/ TransferInventory(h)

Spec == Init /\ [][Next]_vars

\* One request, handled alone, from any of the seed tables.
InitCall == \E tbl \in SeedTables : InitWith(tbl, OneProc)

NextCall ==
    \/ pc["h1"] = "idle" /\ \E r \in Requests : Begin("h1", r)
    \/ UpdateInventory("h1")
    \/ CreateOrder("h1")
    \/ TransferInventory("h1")

SpecCall == InitCall /\ [][NextCall]_vars

\* Two requests in one server process, with websockets that connect to it
\* and go away: the handlers' passes over connected_clients overlap where
\* a send gives the event loop away.
NotifyTable ==
    TableOf([k \in {<<1, 1>>} |->
        [quantity |-> MaxQty, reserved_quantity |-> 0,
         low_stock_threshold |-> MaxThreshold]], 1)

NotifyRequests ==
    {r \in UpdateRequests :
        /\ r.product_id = 1 /\ r.warehouse_id = 1
        /\ r.quantity >= 0 /\ r.low_stock_threshold = MaxThreshold}
    \cup {r \in OrderRequests :
        r.items = <<[product_id |-> 1, quantity |-> 1]>>}
    \cup {r \in TransferRequests :
        /\ r.product_id = 1 /\ r.quantity = 1
        /\ r.warehouse_id # r.to_warehouse_id}

InitNotify == InitWith(NotifyTable, OneProc)

NextNotify ==
    \/ \E h \in Handlers :
        \/ pc[h] = "idle" /\ \E r \in NotifyRequests : Begin(h, r)
        \/ UpdateInventory(h)
        \/ CreateOrder(h)
        \/ TransferInventory(h)
        \/ NotifyNext(h)
    \/ \E c \in Clients : WebsocketEndpoint("p1", c)

SpecNotify == InitNotify /\ [][NextNotify]_vars

\* Two requests of a selection, each in a server process of its own, on a
\* shared database: their statements interleave as in Spec.
PairRequests ==
    NotifyRequests
    \cup {r \in OrderRequests :
            r.items = <<[product_id |-> 1, quantity |-> 1],
                        [product_id |-> 2, quantity |-> 1]>>}

NextPair == \E h \in Handlers :
    \/ pc[h] = "idle" /\ \E r \in PairRequests : Begin(h, r)
    \/ UpdateInventory(h)
    \/ CreateOrder(h)
    \/ TransferInventory(h)

SpecPair == Init /\ [][NextPair]_vars

\* One request, with process_analytics running in the request's process and
\* in another one, whose turns fall between the request's statements.
NextAnalytics ==
    \/ pc["h1"] = "idle" /\ \E r \in NotifyRequests : Begin("h1", r)
    \/ UpdateInventory("h1")
    \/ CreateOrder("h1")
    \/ TransferInventory("h1")
    \/ \E p \in Procs : ProcessAnalytics(p)

SpecAnalytics == InitCall /\ [][NextAnalytics]_vars

\* The event loop of a process runs every task that is ready: a handler that
\* was called runs to its return, a sleep that is over lets its task go on.
HandlerSteps(h) ==
    UpdateInventory(h) \/ CreateOrder(h) \/ TransferInventory(h)

SpecAnalyticsFair ==
    /\ SpecAnalytics
    /\ WF_vars(HandlerSteps("h1"))
    /\ \A p \in Procs : WF_vars(ProcessAnalytics(p))
----------------------------------------------------------------------------
\* What the properties below speak of

IsOrder(h) == req[h].op = "create_order"
IsTransfer(h) == req[h].op = "transfer_inventory"
IsUpdate(h) == req[h].op = "update_inventory"
Done(h) == pc[h] = "done"

\* the one row of a key in a table with at most one row per key (0: none)
RowOf(tbl, p, w) ==
    IF Matching(tbl, p, w) = {} THEN 0
    ELSE CHOOSE id \in Matching(tbl, p, w) : TRUE

\* Reserving the items one after the other, in the given order, from table
\* tbl at warehouse w: the index of the first item whose entry is missing or
\* holds less than the item asks for (0: every item can be reserved).
RECURSIVE FirstShort(_, _, _, _)
FirstShort(items, tbl, w, i) ==
    IF i > Len(items) THEN 0
    ELSE LET id == RowOf(tbl, items[i].product_id, w) IN
         IF id = 0 \/ tbl[id].quantity < items[i].quantity THEN i
         ELSE FirstShort(items,
                         [tbl EXCEPT ![id].quantity = @ - items[i].quantity],
                         w, i + 1)

\* the units of product p the items ask for
RECURSIVE Demand(_, _)
Demand(items, p) ==
    IF Len(items) = 0 THEN 0
    ELSE (IF Head(items).product_id = p THEN Head(items).quantity ELSE 0)
         + Demand(Tail(items), p)

\* the handler's order has been committed
OrderCommitted(h) ==
    /\ IsOrder(h)
    /\ pc[h] = "ord_notify" \/ (Done(h) /\ resp[h].code = 200)

Max(a, b) == IF a >= b THEN a ELSE b

----------------------------------------------------------------------------
\* C1: in every reachable state every StockEntry has quantity >= 0 and
\* reservedQuantity >= 0, whatever integers the requests carry.
C1_StockNeverNegative ==
    \A id \in 1..Len(inventory) :
        inventory[id].quantity >= 0 /\ inventory[id].reserved_quantity >= 0

\* C2: when two order creations that overlap have both committed, the units
\* they reserved from an entry are no more than the entry had available
\* before them, and the entry shows both reservations (no lost update).
C2_NoOverReservation ==
    (OrderCommitted("h1") /\ OrderCommitted("h2")) =>
        \A id \in 1..Len(inventory) :
            LET before == pre["h1"].inventory[id]
                avail == Max(before.quantity, pre["h2"].inventory[id].quantity)
                held == Max(0 - before.reserved_quantity,
                            0 - pre["h2"].inventory[id].reserved_quantity)
                d == (IF req["h1"].warehouse_id = before.warehouse_id
                      THEN Demand(req["h1"].items, before.product_id) ELSE 0)
                   + (IF req["h2"].warehouse_id = before.warehouse_id
                      THEN Demand(req["h2"].items, before.product_id) ELSE 0)
            IN /\ d <= avail
               /\ inventory[id].quantity = avail - d
               /\ inventory[id].reserved_quantity = (0 - held) + d

\* C3: an order one of whose items cannot be reserved is rejected, and after
\* the call table inventory is as it was before the call (the entries of the
\* items reserved earlier included) and no OrderItem of the order remains.
C3_OrderAllOrNothing ==
    \A h \in Handlers :
        (IsOrder(h) /\ Done(h)
         /\ FirstShort(req[h].items, pre[h].inventory, req[h].warehouse_id, 1) # 0)
        => /\ resp[h].code = 400
           /\ inventory = pre[h].inventory
           /\ order_items = pre[h].order_items

\* an order whose first item was reserved and whose second could not be
C3_Witness ==
    \E h \in Handlers :
        /\ IsOrder(h) /\ Done(h) /\ resp[h].code = 400
        /\ FirstShort(req[h].items, pre[h].inventory, req[h].warehouse_id, 1) = 2
        /\ req[h].items[1].quantity > 0

\* C4: an order all of whose items can be reserved is persisted COMPLETED and
\* read back as such, and every entry of the order's warehouse has its
\* quantity lowered and its reserved_quantity raised by what the items ask
\* of its product; nothing else of table inventory changes.
C4_OrderCompleted ==
    \A h \in Handlers :
        (IsOrder(h) /\ Done(h)
         /\ FirstShort(req[h].items, pre[h].inventory, req[h].warehouse_id, 1) = 0)
        => /\ resp[h].code = 200
           /\ resp[h].order.status = "COMPLETED"
           /\ ReadOrder(pre[h].order_seq + 1) =
                [id |-> pre[h].order_seq + 1, status |-> "COMPLETED",
                 warehouse_id |-> req[h].warehouse_id]
           /\ resp[h].order = ReadOrder(pre[h].order_seq + 1)
           /\ Len(inventory) = Len(pre[h].inventory)
           /\ \A id \in 1..Len(inventory) :
                LET old == pre[h].inventory[id]
                    d == IF old.warehouse_id = req[h].warehouse_id
                         THEN Demand(req[h].items, old.product_id) ELSE 0
                IN inventory[id] =
                     [old EXCEPT !.quantity = @ - d,
                                 !.reserved_quantity = @ + d]

\* a completed order of two items, of different products
C4_Witness ==
    \E h \in Handlers :
        /\ IsOrder(h) /\ Done(h) /\ resp[h].code = 200
        /\ Len(req[h].items) = 2
        /\ req[h].items[1].product_id # req[h].items[2].product_id
        /\ req[h].items[1].quantity > 0 /\ req[h].items[2].quantity > 0
        /\ inventory # pre[h].inventory
C6_RejectionNamesProduct ==
    \A h \in Handlers :
        LET k == FirstShort(req[h].items, pre[h].inventory,
                            req[h].warehouse_id, 1) IN
        (IsOrder(h) /\ Done(h) /\ k # 0)
        => /\ resp[h].code = 400
           /\ local[h].i = k
           /\ resp[h].detail.text = "Insufficient stock for product"
           /\ resp[h].detail.product_id = req[h].items[k].product_id

\* C7: a transfer of q > 0 units from a warehouse whose entry holds at least q
\* to another warehouse lowers the source's quantity by q, raises the
\* destination's by q (a missing destination entry is created holding q),
\* and changes no reserved_quantity and no other entry.
C7_TransferMovesStock ==
    \A h \in Handlers :
        LET r == req[h]
            old == pre[h].inventory
            src == RowOf(old, r.product_id, r.warehouse_id)
            dst == RowOf(old, r.product_id, r.to_warehouse_id)
        IN
        (IsTransfer(h) /\ Done(h) /\ r.quantity > 0
         /\ r.warehouse_id # r.to_warehouse_id
         /\ src # 0 /\ old[src].quantity >= r.quantity)
        => /\ resp[h].code = 200
           /\ LET debited == [old EXCEPT ![src].quantity = @ - r.quantity] IN
              IF dst # 0
              THEN inventory = [debited EXCEPT ![dst].quantity = @ + r.quantity]
              ELSE /\ Len(inventory) = Len(old) + 1
                   /\ SubSeq(inventory, 1, Len(old)) = debited
                   /\ LET new == inventory[Len(inventory)] IN
                        /\ new.product_id = r.product_id
                        /\ new.warehouse_id = r.to_warehouse_id
                        /\ new.quantity = r.quantity
                        /\ new.reserved_quantity = 0

\* all of a source's units moved onto an existing destination entry
C7_Witness ==
    \E h \in Handlers :
        LET r == req[h]
            old == pre[h].inventory
            src == RowOf(old, r.product_id, r.warehouse_id)
            dst == RowOf(old, r.product_id, r.to_warehouse_id)
        IN /\ IsTransfer(h) /\ Done(h) /\ resp[h].code = 200
           /\ r.warehouse_id # r.to_warehouse_id
           /\ src # 0 /\ dst # 0
           /\ r.quantity = MaxQty /\ old[src].quantity = MaxQty
           /\ inventory[src].quantity = 0
           /\ inventory[dst].quantity = old[dst].quantity + MaxQty

C9_SetLevelUpserts ==
    \A h \in Handlers :
        LET r == req[h]
            old == pre[h].inventory
            id == RowOf(old, r.product_id, r.warehouse_id)
        IN
        (IsUpdate(h) /\ Done(h))
        => /\ resp[h].code = 200
           /\ IF id = 0
              THEN inventory = Append(old,
                      [product_id |-> r.product_id,
                       warehouse_id |-> r.warehouse_id,
                       quantity |-> r.quantity, reserved_quantity |-> 0,
                       low_stock_threshold |-> r.low_stock_threshold])
              ELSE inventory =
                      [old EXCEPT ![id].quantity = r.quantity,
                                  ![id].low_stock_threshold =
                                      r.low_stock_threshold]

\* an entry with units reserved was given another quantity and threshold
C9_Witness ==
    \E h \in Handlers :
        LET r == req[h]
            old == pre[h].inventory
            id == RowOf(old, r.product_id, r.warehouse_id)
        IN /\ IsUpdate(h) /\ Done(h) /\ id # 0
           /\ old[id].reserved_quantity > 0
           /\ old[id].quantity # r.quantity
           /\ old[id].low_stock_threshold # r.low_stock_threshold
           /\ inventory[id].reserved_quantity = old[id].reserved_quantity

\* C10: update_inventory calls notify_clients exactly once, with a
\* low_stock_alert carrying the product, the warehouse and the new quantity,
\* when the new quantity <= the new threshold, and not at all when it is
\* greater; nothing is broadcast before the update has returned.
C10_LowStockAlert ==
    \A h \in Handlers :
        LET r == req[h] IN
        /\ (IsUpdate(h) /\ ~Done(h)) => broadcasts = pre[h].broadcasts
        /\ (IsUpdate(h) /\ Done(h)) =>
              broadcasts = pre[h].broadcasts \o
                (IF r.quantity <= r.low_stock_threshold
                 THEN <<[type |-> "low_stock_alert",
                         product_id |-> r.product_id,
                         warehouse_id |-> r.warehouse_id, to_warehouse |-> 0,
                         quantity |-> r.quantity, order_id |-> 0,
                         status |-> ""]>>
                 ELSE <<>>)

\* the boundary: the new quantity equals the new threshold, one alert
C10_Witness ==
    \E h \in Handlers :
        /\ IsUpdate(h) /\ Done(h)
        /\ req[h].quantity = req[h].low_stock_threshold
        /\ Len(broadcasts) = 1
        /\ broadcasts[1].type = "low_stock_alert"
        /\ broadcasts[1].quantity = req[h].quantity

----------------------------------------------------------------------------
\* What the properties of the broadcast speak of

\* the handler called notify_clients with at least one client connected
Passed(h) == local[h].it_set # {}

\* the peer of websocket c has received message m
Received(c, m) == \E i \in 1..Len(inbox[c]) : inbox[c][i] = m

\* the clients that were connected when the handler's pass began and whose
\* peers are still there (a websocket whose peer is there is never removed)
Stayed(h) == local[h].it_set \ closed

\* C11: a pass in which the set kept its size is not ended by a failing
\* send: it runs to its end, and every client that was connected when it
\* began and whose peer is still there has received the event.
C11_BroadcastBestEffort ==
    \A h \in Handlers :
        (Done(h) /\ Passed(h) /\ local[h].exc # "RuntimeError")
        => /\ local[h].exc = ""
           /\ \A c \in Stayed(h) : Received(c, Event(h))

\* C12: an order with an item of quantity <= 0, and a transfer of quantity
\* <= 0, is rejected and leaves the tables inventory, orders and order_items
\* as they were.
C12_NonPositiveRejected ==
    \A h \in Handlers :
        (/\ Done(h)
         /\ \/ IsOrder(h) /\ \E i \in 1..Len(req[h].items) :
                                req[h].items[i].quantity <= 0
            \/ IsTransfer(h) /\ req[h].quantity <= 0)
        => /\ resp[h].code = 400
           /\ inventory = pre[h].inventory
           /\ orders = pre[h].orders
           /\ order_items = pre[h].order_items

\* C13: the result an order creation or a transfer returns agrees with what
\* it persisted: it answers success exactly when it has committed, also when
\* a send of its event fails.
C13_ResultAgreesWithCommit ==
    \A h \in Handlers :
        (Done(h) /\ (IsOrder(h) \/ IsTransfer(h)))
        => (resp[h].code = 200 <=> local[h].committed)

\* how often message m is in the sequence q
RECURSIVE Count(_, _)
Count(q, m) ==
    IF Len(q) = 0 THEN 0
    ELSE (IF Head(q) = m THEN 1 ELSE 0) + Count(Tail(q), m)

\* the handler has committed and has called notify_clients
Called(h) == local[h].committed /\ pc[h] \in {"notify", "done"}

\* C14: the order_created event of an order id (with status COMPLETED) has
\* been broadcast once if the order is committed COMPLETED and its handler
\* has gone on to notify_clients, and not at all otherwise (a rejected order
\* has none); the inventory_transfer event of a transfer (product, source,
\* destination, quantity) has been broadcast once for every transfer of
\* these values that has committed, and not for a failed one; no client has
\* received an event more often than it was broadcast.
C14_OneEventPerCommit ==
    /\ \A id \in 1..order_seq :
        /\ Count(broadcasts, OrderCreated(id)) =
             Cardinality({h \in Handlers :
                 IsOrder(h) /\ Called(h) /\ local[h].order_id = id})
        /\ Count(broadcasts, OrderCreated(id)) <= 1
        /\ Count(broadcasts, OrderCreated(id)) = 1
             => ReadOrder(id).status = "COMPLETED"
    /\ \A h \in Handlers :
        IsTransfer(h) =>
            Count(broadcasts, InventoryTransfer(req[h])) =
              Cardinality({g \in Handlers :
                  /\ IsTransfer(g) /\ Called(g)
                  /\ InventoryTransfer(req[g]) = InventoryTransfer(req[h])})
    /\ \A h \in Handlers :
        (IsOrder(h) /\ Done(h) /\ ~local[h].committed)
        => \A i \in 1..Len(broadcasts) :
              broadcasts[i].type = "order_created"
              => broadcasts[i].order_id # local[h].order_id
    /\ \A i \in 1..Len(broadcasts) :
        broadcasts[i].type = "order_created"
        => broadcasts[i].status = "COMPLETED"
    /\ \A c \in Clients : \A i \in 1..Len(inbox[c]) :
        Count(inbox[c], inbox[c][i]) <= Count(broadcasts, inbox[c][i])

\* a completed order whose event a client has received, beside a transfer
\* that failed
C14_Witness ==
    \E h, g \in Handlers :
        /\ IsOrder(h) /\ Done(h) /\ resp[h].code = 200
        /\ \E c \in Clients : Received(c, OrderCreated(local[h].order_id))
        /\ IsTransfer(g) /\ Done(g) /\ ~local[g].committed
        /\ Count(broadcasts, InventoryTransfer(req[g])) = 0

\* the StockEntry keys the handler's operation works on
KeysOf(h) ==
    CASE IsUpdate(h) -> {<<req[h].product_id, req[h].warehouse_id>>}
      [] IsOrder(h) -> {<<req[h].items[i].product_id, req[h].warehouse_id>> :
                          i \in 1..Len(req[h].items)}
      [] IsTransfer(h) -> {<<req[h].product_id, req[h].warehouse_id>>,
                           <<req[h].product_id, req[h].to_warehouse_id>>}
      [] OTHER -> {}

\* the place of message m in the sequence q (m is in q)
Pos(q, m) == CHOOSE i \in 1..Len(q) : q[i] = m

\* h committed before g.  In one process a handler does not give the event
\* loop away between its commit and its call of notify_clients, so the
\* handlers' commits are in the order of their calls.
CommittedBefore(h, g) ==
    /\ Passed(h) /\ Passed(g)
    /\ Event(h) # Event(g)
    /\ Pos(broadcasts, Event(h)) < Pos(broadcasts, Event(g))

\* C15: of two operations on the same key that both committed and emitted
\* an event, a client that has received both events has received them in
\* the order of the commits.
C15_EventsInCommitOrder ==
    \A h, g \in Handlers :
        (/\ h # g /\ Called(h) /\ Called(g)
         /\ KeysOf(h) \cap KeysOf(g) # {}
         /\ CommittedBefore(h, g))
        => \A c \in Clients :
              (Received(c, Event(h)) /\ Received(c, Event(g)))
              => Pos(inbox[c], Event(h)) < Pos(inbox[c], Event(g))

\* C16: a websocket that is added to connected_clients, or removed from it,
\* while a pass is suspended in a send does not make the pass fail, and every
\* client that was connected when the pass began and whose peer is still
\* there has received the event (passes that a failing send ended apart).
C16_SetProtectedDuringPass ==
    \A h \in Handlers :
        (Done(h) /\ Passed(h) /\ local[h].exc # "SendError")
        => /\ local[h].exc # "RuntimeError"
           /\ resp[h].code = 200
           /\ \A c \in Stayed(h) : Received(c, Event(h))

\* the units of product p in table tbl, over all warehouses
RECURSIVE Total(_, _)
Total(tbl, p) ==
    IF Len(tbl) = 0 THEN 0
    ELSE (IF Head(tbl).product_id = p THEN Head(tbl).quantity ELSE 0)
         + Total(Tail(tbl), p)

\* C17: while the requests made are all transfers of a positive
\* quantity, every committed state
\* holds of each product, over all warehouses, what it held when a transfer
\* began: no decrement of a source is persisted without its increment.
C17_TransfersConserveStock ==
    (\A h \in Handlers :
        pc[h] # "idle" => IsTransfer(h) /\ req[h].quantity > 0)
    => \A h \in Handlers : pc[h] # "idle" =>
          \A p \in Products :
              Total(inventory, p) = Total(pre[h].inventory, p)

\* C18: after a transfer that succeeded, a destination key that had no entry
\* has one with the transferred quantity, reserved_quantity 0 and the
\* low_stock_threshold the source entry had; a destination entry that was
\* there has the low_stock_threshold and reserved_quantity it had.
C18_DestinationCreated ==
    \A h \in Handlers :
        (IsTransfer(h) /\ Done(h) /\ resp[h].code = 200)
        => LET p == req[h].product_id
               src == RowOf(pre[h].inventory, p, req[h].warehouse_id)
               was == RowOf(pre[h].inventory, p, req[h].to_warehouse_id)
               now == RowOf(inventory, p, req[h].to_warehouse_id)
           IN /\ src # 0 /\ now # 0
              /\ was = 0 =>
                   /\ inventory[now].quantity = req[h].quantity
                   /\ inventory[now].reserved_quantity = 0
                   /\ inventory[now].low_stock_threshold =
                        pre[h].inventory[src].low_stock_threshold
              /\ was # 0 =>
                   /\ now = was
                   /\ inventory[now].low_stock_threshold =
                        pre[h].inventory[was].low_stock_threshold
                   /\ inventory[now].reserved_quantity =
                        pre[h].inventory[was].reserved_quantity

\* a transfer that created its destination from a source with a threshold
C18_Witness ==
    \E h \in Handlers :
        /\ IsTransfer(h) /\ Done(h) /\ resp[h].code = 200
        /\ req[h].quantity > 0
        /\ RowOf(pre[h].inventory, req[h].product_id,
                 req[h].to_warehouse_id) = 0
        /\ LET now == RowOf(inventory, req[h].product_id,
                            req[h].to_warehouse_id)
           IN now # 0 /\ inventory[now].low_stock_threshold > 0

\* the committed items of order id, in their order
ItemsOf(tbl, id) == SelectSeq(tbl, LAMBDA it : it.order_id = id)

\* an order is in its session only as PENDING, and committed only as
\* COMPLETED: no other caller ever sees it PENDING
OrderStatusOK ==
    /\ \A h \in Handlers :
        sess[h].order # NoOrder => sess[h].order.status = "PENDING"
    /\ \A o \in orders : o.status = "COMPLETED"
    /\ \A o, q \in orders : o.id = q.id => o = q

\* a committed order and its items stay as they are
OrderKept ==
    \A o \in orders :
        /\ o \in orders'
        /\ ItemsOf(order_items', o.id) = ItemsOf(order_items, o.id)

\* C19: an order is created PENDING, it is never committed (visible to
\* another caller) as PENDING, and once it is committed, COMPLETED, no step
\* of any operation changes its status or its items.
C19_OrderLifecycle == []OrderStatusOK /\ [][OrderKept]_vars

\* an operation has committed after an order was completed
C19_Witness ==
    \E h, g \in Handlers :
        /\ h # g
        /\ IsOrder(h) /\ Done(h) /\ resp[h].code = 200
        /\ ReadOrder(local[h].order_id).status = "COMPLETED"
        /\ Done(g) /\ local[g].committed
        /\ ReadOrder(local[h].order_id) \in pre[g].orders

\* C20: a step of process_analytics (one that moves the task) leaves the
\* tables inventory, orders and order_items as they are, wherever it falls
\* among the steps of a request.
C20_AnalyticsReadOnly ==
    [][analytics' # analytics
       => UNCHANGED <<inventory, orders, order_items, order_seq>>]_vars

\* a cycle has run between the statements of a request that has changed
\* objects of its session, on a table with rows
C20_Witness ==
    \E p \in Procs : \E h \in Handlers :
        /\ analytics[p].cycles > 0
        /\ pc[h] \notin {"idle", "done"}
        /\ sess[h] # EmptySession
        /\ inventory # <<>>

\* C21 as stated: the sleep that follows a failed cycle is longer than the
\* interval between two cycles, ANALYTICS_INTERVAL.
C21_RetryLongerThanInterval ==
    \A p \in Procs :
        analytics[p].pc = "sleep" => analytics[p].sleep > ANALYTICS_INTERVAL

\* C21, amended: a failed cycle never ends the job.  The sleep that follows
\* it is the fixed retry delay of 60 seconds, which is shorter than
\* ANALYTICS_INTERVAL, and after every failed cycle a later cycle is
\* eventually attempted (up to the number of cycles the model follows).
C21_RetryAfterFailure ==
    /\ [](\A p \in Procs :
            /\ analytics[p].pc \in {"off", "run", "sleep"}
            /\ analytics[p].pc = "sleep"
                  => /\ analytics[p].sleep = RetryDelay
                     /\ analytics[p].sleep < ANALYTICS_INTERVAL)
    /\ \A p \in Procs : \A n \in 1..(MaxCycles - 1) :
          (analytics[p].pc = "sleep" /\ analytics[p].cycles = n)
              ~> (analytics[p].cycles = n + 1)

\* a second cycle has failed, after the retry delay that followed the first
C21_Witness ==
    \E p \in Procs :
        /\ analytics[p].cycles >= 2
        /\ analytics[p].pc = "sleep"
        /\ analytics[p].sleep = RetryDelay

\* C22: a cycle of process_analytics (the database and Redis being there)
\* completes without error, that is it ends in the sleep of
\* ANALYTICS_INTERVAL seconds, and it leaves in the cache, for every entry
\* of a table of at most ANALYTICS_BATCH_SIZE rows, a value under the
\* entry's key that holds the entry's quantity and expires after CACHE_TTL.
C22_CycleWritesSnapshots ==
    [][\A p \in Procs :
          analytics'[p].cycles = analytics[p].cycles + 1
              => /\ analytics'[p].sleep = ANALYTICS_INTERVAL
                 /\ Len(inventory) <= ANALYTICS_BATCH_SIZE
                      => \A id \in DOMAIN inventory :
                            /\ TrendKey(inventory[id]) \in DOMAIN redis_client'
                            /\ redis_client'[TrendKey(inventory[id])].quantity
                                  = inventory[id].quantity
                            /\ redis_client'[TrendKey(inventory[id])].ttl
                                  = CACHE_TTL]_vars

\* the units of product p that the committed OrderItems of the COMPLETED
\* orders of warehouse w ask for
RECURSIVE ReservedByOrders(_, _, _, _)
ReservedByOrders(items, ords, p, w) ==
    IF Len(items) = 0 THEN 0
    ELSE (IF /\ Head(items).product_id = p
             /\ \E o \in ords : /\ o.id = Head(items).order_id
                                 /\ o.warehouse_id = w
                                 /\ o.status = "COMPLETED"
          THEN Head(items).quantity ELSE 0)
         + ReservedByOrders(Tail(items), ords, p, w)

\* the sum quantity + reserved_quantity of every entry is what it was
SumKept(was) ==
    /\ Len(inventory) = Len(was)
    /\ \A id \in 1..Len(inventory) :
          inventory[id].quantity + inventory[id].reserved_quantity
            = was[id].quantity + was[id].reserved_quantity

\* C23: while the requests made are all order creations, every committed
\* state has, for every entry, the sum quantity + reserved_quantity it had
\* before the first of them, and a reserved_quantity that is the one it had
\* then plus what the COMPLETED orders of its warehouse ask of its product.
C23_OrdersOnlyMoveUnits ==
    (\A h \in Handlers : pc[h] # "idle" => IsOrder(h))
    => \A h \in Handlers :
          (pc[h] # "idle" /\ pre[h].orders = {})
          => /\ SumKept(pre[h].inventory)
             /\ \A id \in 1..Len(inventory) :
                   inventory[id].reserved_quantity
                     = pre[h].inventory[id].reserved_quantity
                       + ReservedByOrders(order_items, orders,
                                          inventory[id].product_id,
                                          inventory[id].warehouse_id)

\* C24: in every reachable state table inventory holds at most one row per
\* (product_id, warehouse_id), also after requests that overlap have each
\* written a key that had no row; and a row once there stays, under its key.
C24_OneEntryPerKey ==
    /\ [](\A p \in Products : \A w \in Warehouses :
            Cardinality(Matching(inventory, p, w)) <= 1)
    /\ [][/\ Len(inventory') >= Len(inventory)
          /\ \A id \in 1..Len(inventory) :
                /\ inventory'[id].product_id = inventory[id].product_id
                /\ inventory'[id].warehouse_id = inventory[id].warehouse_id]_vars

\* some product is asked for by more than one item
Repeats(items) ==
    \E i, j \in 1..Len(items) : i # j /\ items[i].product_id = items[j].product_id

\* item k fits: its product has an entry at warehouse w of table tbl, and
\* the items 1..k ask of that product no more than the entry holds
Fits(items, tbl, w, k) ==
    LET p == items[k].product_id
        id == RowOf(tbl, p, w) IN
    id # 0 /\ Demand(SubSeq(items, 1, k), p) <= tbl[id].quantity

\* C25: for an order that asks for a product more than once, the requests
\* add up within the order.  It completes when every occurrence fits with what
\* the earlier ones took, so only if each product's total is no more than
\* the entry held; the entry's quantity then falls and its reserved_quantity
\* rises by that total.  Otherwise it is rejected at the first occurrence
\* that does not fit, and table inventory is as it was before the call.
C25_RepeatedProductAccumulates ==
    \A h \in Handlers :
        (IsOrder(h) /\ Done(h) /\ Repeats(req[h].items))
        => LET items == req[h].items
               was == pre[h].inventory
               w == req[h].warehouse_id
               short == {k \in 1..Len(items) : ~Fits(items, was, w, k)}
           IN IF short = {}
              THEN /\ resp[h].code = 200
                   /\ Len(inventory) = Len(was)
                   /\ \A id \in 1..Len(was) :
                         LET d == IF was[id].warehouse_id = w
                                  THEN Demand(items, was[id].product_id)
                                  ELSE 0
                         IN /\ d <= was[id].quantity
                            /\ inventory[id].quantity = was[id].quantity - d
                            /\ inventory[id].reserved_quantity
                                  = was[id].reserved_quantity + d
              ELSE /\ resp[h].code = 400
                   /\ local[h].i \in short
                   /\ \A k \in short : local[h].i <= k
                   /\ inventory = was

\* an order rejected at the second occurrence of a product, which asks for
\* no more than the entry held before the call
C25_Witness ==
    \E h \in Handlers :
        /\ IsOrder(h) /\ Done(h) /\ resp[h].code = 400
        /\ local[h].i = 2
        /\ req[h].items[1].product_id = req[h].items[2].product_id
        /\ req[h].items[1].quantity > 0 /\ req[h].items[2].quantity > 0
        /\ LET id == RowOf(pre[h].inventory, req[h].items[2].product_id,
                           req[h].warehouse_id)
           IN id # 0 /\ req[h].items[2].quantity <= pre[h].inventory[id].quantity

\* the low_stock_alert messages notify_clients was called with
Alerts == {i \in 1..Len(broadcasts) : broadcasts[i].type = "low_stock_alert"}

\* C26: every low_stock_alert broadcast is the one of an update_inventory
\* call that has committed, and there are no more of them than such calls:
\* an order or a transfer broadcasts none, whatever it leaves in the entry.
C26_OnlySetLevelAlerts ==
    /\ \A i \in Alerts :
          \E h \in Handlers : /\ IsUpdate(h) /\ local[h].committed
                               /\ broadcasts[i] = LowStockAlert(req[h])
    /\ Cardinality(Alerts)
          <= Cardinality({h \in Handlers : IsUpdate(h) /\ local[h].committed})

\* an order or a transfer has returned, having brought an entry from above
\* its low_stock_threshold to or below it, and no low_stock_alert was
\* ever broadcast
C26_Witness ==
    \E h \in Handlers : \E id \in 1..Len(inventory) :
        /\ IsOrder(h) \/ IsTransfer(h)
        /\ Done(h) /\ resp[h].code = 200
        /\ id \in 1..Len(pre[h].inventory)
        /\ pre[h].inventory[id].quantity > inventory[id].low_stock_threshold
        /\ inventory[id].quantity <= inventory[id].low_stock_threshold
        /\ Alerts = {}
        /\ Len(broadcasts) > 0
====
